---- MODULE Spec2Model ----
(***************************************************************************)
(* Gate-pass service (src/server.js): the request lifecycle                *)
(* (create / approve / reject), pass verification and the entry/exit log,  *)
(* over the JSON database file that every handler reads whole and          *)
(* rewrites whole.                                                         *)
(*                                                                         *)
(* JavaScript values are modelled as records: Str(s) a string, Num(n, d)   *)
(* the number n/d, Iso(t) the ISO-8601 string of the Date with time value  *)
(* t (milliseconds), Null and Undefined.  An object is a record that has   *)
(* exactly the properties the code has given it, so `request.qrData`       *)
(* being absent is "qrData" \notin DOMAIN request.                         *)
(***************************************************************************)
EXTENDS Integers, Sequences, FiniteSets, Bags, TLC

VARIABLES
    disk,       \* the parsed content of data/database.json: users, requests, logs
    clock,      \* Date.now(), in milliseconds
    awaiting,   \* approve handlers suspended at `await QRCode.toDataURL(...)`
    resp        \* the last HTTP response sent (or the error that replaced it)

vars == << disk, clock, awaiting, resp >>

---------------------------------------------------------------------------
(* Bounds of the model *)

MaxRequests == 2    \* requests ever held by one snapshot of the database
MaxLogs == 1        \* log entries ever held by one snapshot of the database
MaxInflight == 2    \* approve handlers suspended at the same time
MaxClock == 1       \* the last millisecond the clock reaches
MaxEntries == 2     \* log entries of one pass, in SpecGate

(* Program constants *)

HourMs == 3600000   \* 60 * 60 * 1000

---------------------------------------------------------------------------
(* JavaScript values *)

Str(s) == [str |-> s]
Num(n, d) == [num |-> n, den |-> d]
Iso(t) == [iso |-> t]
Null == [null |-> TRUE]
Undefined == [undefined |-> TRUE]
NaN == [nan |-> TRUE]

\* !v : the values JavaScript treats as false
Falsy(v) == v \in {Undefined, Null, Str(""), NaN} \/ ("num" \in DOMAIN v /\ v.num = 0)

\* a || b
OrElse(a, b) == IF Falsy(a) THEN b ELSE a

\* obj.p = v for every property p of props: set when present, added when absent
Assign(obj, props) == props @@ obj

\* ToNumber(v) for the `*` operator: a number stays, a non-numeric string is NaN
ToNumber(v) == IF "num" \in DOMAIN v THEN v ELSE NaN

---------------------------------------------------------------------------
(* Dates *)

\* A Date object: its time value in milliseconds, or the invalid Date (time value NaN)
Date(t) == [ms |-> t]
InvalidDate == [invalid |-> TRUE]
IsValidDate(d) == "ms" \in DOMAIN d

\* Mutant: the duration taken as minutes
DatePlusMinutes(t, x) ==
    IF x = NaN THEN InvalidDate
    ELSE LET ms == x.num * 60000
             fl == ms \div x.den
             whole == (ms % x.den = 0)
         IN  Date(IF whole \/ t + fl >= 0 THEN t + fl ELSE t + fl + 1)

\* new Date(t + x * 60 * 60 * 1000) for the integer time value t and the number
\* x = n/d: the Date constructor clips its argument to an integral number of
\* milliseconds, truncating toward zero; NaN gives the invalid Date.  (The sum is
\* a double; for the times and durations of this model it is the exact sum.)
DatePlusHours(t, x) ==
    IF x = NaN THEN InvalidDate
    ELSE LET ms == x.num * HourMs
             fl == ms \div x.den
             whole == (ms % x.den = 0)
         IN  Date(IF whole \/ t + fl >= 0 THEN t + fl ELSE t + fl + 1)

\* new Date(s) for a string s
ParseDate(s) == IF "iso" \in DOMAIN s THEN Date(s.iso) ELSE InvalidDate

\* d.toISOString() of a valid Date (it throws RangeError on the invalid Date)
toISOString(d) == Iso(d.ms)

\* Mutant: a pass expires at its expiry time, not after it
AtOrAfter(a, b) == IsValidDate(a) /\ IsValidDate(b) /\ a.ms >= b.ms

\* a > b on Dates; every comparison with NaN is false
After(a, b) == IsValidDate(a) /\ IsValidDate(b) /\ a.ms > b.ms

---------------------------------------------------------------------------
(* JSON *)

Stringify(obj) == [json |-> obj]
IsJSON(s) == "json" \in DOMAIN s
Parse(s) == s.json

\* QRCode.toDataURL(text), when it succeeds
ToDataURL(text) == [dataURL |-> text]

---------------------------------------------------------------------------
(* The database file *)

Users == <<
    [id |-> Str("S1"), name |-> Str("Asha"), username |-> Str("asha"),
     password |-> Str("pw1"), role |-> "student", email |-> Str("asha@x")],
    [id |-> Str("M1"), name |-> Str("Mod"), username |-> Str("mod"),
     password |-> Str("pw2"), role |-> "moderator", email |-> Str("mod@x")] >>

EmptyDB == [users |-> <<>>, requests |-> <<>>, logs |-> <<>>]

\* readDB(): the parsed file, or the empty database when reading or parsing fails
readDB(ok) == IF ok THEN disk ELSE EmptyDB

\* writeDB(data): the file after the call
writeDB(data, ok) == IF ok THEN data ELSE disk

\* generateID(prefix): prefix, Date.now() and floor(Math.random() * 1000), concatenated
generateID(prefix, now, rnd) == [prefix |-> prefix, t |-> now, n |-> rnd]

\* db.requests.find(r => r.id === id): the index of the first match, 0 when none
FindRequest(db, id) ==
    IF \E i \in 1..Len(db.requests) : db.requests[i].id = id
    THEN CHOOSE i \in 1..Len(db.requests) :
            /\ db.requests[i].id = id
            /\ \A j \in 1..(i - 1) : db.requests[j].id # id
    ELSE 0

\* Mutant: any user with the id, whatever the role
FindUser(db, id) ==
    IF \E i \in 1..Len(db.users) : db.users[i].id = id
    THEN CHOOSE i \in 1..Len(db.users) :
            /\ db.users[i].id = id
            /\ \A j \in 1..(i - 1) : db.users[j].id # id
    ELSE 0

\* db.users.find(u => u.id === id && u.role === 'student'), likewise
FindStudent(db, id) ==
    IF \E i \in 1..Len(db.users) : db.users[i].id = id /\ db.users[i].role = "student"
    THEN CHOOSE i \in 1..Len(db.users) :
            /\ db.users[i].id = id /\ db.users[i].role = "student"
            /\ \A j \in 1..(i - 1) : ~(db.users[j].id = id /\ db.users[j].role = "student")
    ELSE 0

---------------------------------------------------------------------------
(* Responses *)

Error(op, status, msg) == [op |-> op, status |-> status, error |-> msg]
Ok(op, body) == [op |-> op, status |-> 200, body |-> body]
NoResponse(op, err) == [op |-> op, status |-> 0, thrown |-> err]

\* What a handler does when it runs to its end: the response it sends, and the
\* database it hands to writeDB (write = FALSE: it returns before writeDB)
Respond(r) == [resp |-> r, write |-> FALSE]
Commit(db, r) == [resp |-> r, write |-> TRUE, db |-> db]

---------------------------------------------------------------------------
(* POST /api/requests/create *)

\* Mutant: the request is stored without looking the student up
createRequestUnchecked(db, body, now, rnd) ==
    IF Falsy(body.studentId) \/ Falsy(body.reason)
         \/ Falsy(body.expectedTime) \/ Falsy(body.duration)
    THEN Respond(Error("create", 400, "All fields required"))
    ELSE LET newRequest == [
                 id |-> generateID("REQ", now, rnd),
                 studentId |-> body.studentId,
                 studentName |-> Null,
                 reason |-> body.reason,
                 expectedTime |-> body.expectedTime,
                 duration |-> body.duration,
                 status |-> "pending",
                 createdAt |-> toISOString(Date(now)),
                 moderatorRemarks |-> Null,
                 qrCode |-> Null,
                 expiresAt |-> Null ]
         IN  Commit([db EXCEPT !.requests = Append(@, newRequest)],
                    Ok("create", [success |-> TRUE, request |-> newRequest]))

createRequest(db, body, now, rnd) ==
    IF Falsy(body.studentId) \/ Falsy(body.reason)
         \/ Falsy(body.expectedTime) \/ Falsy(body.duration)
    THEN Respond(Error("create", 400, "All fields required"))
    ELSE LET s == FindStudent(db, body.studentId) IN
         IF s = 0
         THEN Respond(Error("create", 404, "Student not found"))
         ELSE LET newRequest == [
                      id |-> generateID("REQ", now, rnd),
                      studentId |-> body.studentId,
                      studentName |-> db.users[s].name,
                      reason |-> body.reason,
                      expectedTime |-> body.expectedTime,
                      duration |-> body.duration,
                      status |-> "pending",
                      createdAt |-> toISOString(Date(now)),
                      moderatorRemarks |-> Null,
                      qrCode |-> Null,
                      expiresAt |-> Null ]
              IN  Commit([db EXCEPT !.requests = Append(@, newRequest)],
                         Ok("create", [success |-> TRUE, request |-> newRequest]))

---------------------------------------------------------------------------
(* POST /api/requests/reject *)

\* Mutant: reject does not look at the status
rejectAnyStatus(request) == FALSE

\* Mutant: reject refuses a rejected request only
rejectOnlyRejected(request) == request.status = "rejected"

\* if (request.status !== 'pending'), in reject
rejectAlreadyProcessed(request) == request.status # "pending"

rejectRequest(db, body, now) ==
    IF Falsy(body.requestId) \/ Falsy(body.reason)
    THEN Respond(Error("reject", 400, "Request ID and reason required"))
    ELSE LET i == FindRequest(db, body.requestId) IN
         IF i = 0
         THEN Respond(Error("reject", 404, "Request not found"))
         ELSE IF rejectAlreadyProcessed(db.requests[i])
         THEN Respond(Error("reject", 400, "Request already processed"))
         ELSE LET request == Assign(db.requests[i], [
                      status |-> "rejected",
                      rejectionReason |-> body.reason,
                      rejectedAt |-> toISOString(Date(now)) ])
              IN  Commit([db EXCEPT !.requests[i] = request],
                         Ok("reject", [success |-> TRUE, request |-> request]))

---------------------------------------------------------------------------
(* POST /api/requests/approve *)

\* Mutant: approve does not look at the status
approveAnyStatus(request) == FALSE

\* if (request.status !== 'pending'), in approve
approveAlreadyProcessed(request) == request.status # "pending"

\* The handler up to its await: a response, an exception thrown outside the
\* try block (no response is sent), or the handler's locals at the await.
approveStart(db, body, now) ==
    IF Falsy(body.requestId)
    THEN [kind |-> "respond", resp |-> Error("approve", 400, "Request ID required")]
    ELSE LET i == FindRequest(db, body.requestId) IN
         IF i = 0
         THEN [kind |-> "respond", resp |-> Error("approve", 404, "Request not found")]
         ELSE IF approveAlreadyProcessed(db.requests[i])
         THEN [kind |-> "respond", resp |-> Error("approve", 400, "Request already processed")]
         ELSE LET request == db.requests[i]
                  approvalTime == Date(now)
                  expiryTime == DatePlusHours(now, ToNumber(request.duration))
              IN  IF ~IsValidDate(expiryTime)
                  THEN [kind |-> "throw", resp |-> NoResponse("approve", "RangeError")]
                  ELSE [kind |-> "await",
                        locals |-> [
                            db |-> db,
                            request |-> i,
                            remarks |-> body.remarks,
                            approvalTime |-> approvalTime,
                            expiryTime |-> expiryTime,
                            qrData |-> [
                                passId |-> request.id,
                                studentId |-> request.studentId,
                                studentName |-> request.studentName,
                                reason |-> request.reason,
                                approvedAt |-> toISOString(approvalTime),
                                expiresAt |-> toISOString(expiryTime),
                                used |-> FALSE ]]]

\* Mutant: the request is approved and written before the encoder is awaited, and
\* only the image is left out when the encoder fails
approveFinishPartial(l, encoded) ==
    LET request == Assign(l.db.requests[l.request], [
                status |-> "approved",
                moderatorRemarks |-> OrElse(l.remarks, Str("Approved")),
                approvedAt |-> toISOString(l.approvalTime),
                expiresAt |-> toISOString(l.expiryTime),
                qrCode |-> IF encoded THEN ToDataURL(Stringify(l.qrData)) ELSE Null,
                qrData |-> l.qrData ])
    IN  Commit([l.db EXCEPT !.requests[l.request] = request],
               IF encoded
               THEN Ok("approve", [success |-> TRUE, request |-> request])
               ELSE Error("approve", 500, "Failed to generate QR code"))

\* Mutant: after the await the handler reads the database again and refuses a
\* request that is no longer pending
approveFinishRechecking(l, encoded) ==
    IF ~encoded
    THEN Respond(Error("approve", 500, "Failed to generate QR code"))
    ELSE LET i == FindRequest(disk, l.qrData.passId) IN
         IF i = 0 \/ disk.requests[i].status # "pending"
         THEN Respond(Error("approve", 400, "Request already processed"))
         ELSE LET request == Assign(disk.requests[i], [
                      status |-> "approved",
                      moderatorRemarks |-> OrElse(l.remarks, Str("Approved")),
                      approvedAt |-> toISOString(l.approvalTime),
                      expiresAt |-> toISOString(l.expiryTime),
                      qrCode |-> ToDataURL(Stringify(l.qrData)),
                      qrData |-> l.qrData ])
              IN  Commit([disk EXCEPT !.requests[i] = request],
                         Ok("approve", [success |-> TRUE, request |-> request]))

\* The handler from the await on: encoded = TRUE when QRCode.toDataURL resolved,
\* FALSE when it rejected.  `request` is the object of the database read before
\* the await, and that database is what writeDB is given.
approveFinish(l, encoded) ==
    IF ~encoded
    THEN Respond(Error("approve", 500, "Failed to generate QR code"))
    ELSE LET request == Assign(l.db.requests[l.request], [
                     status |-> "approved",
                     moderatorRemarks |-> OrElse(l.remarks, Str("Approved")),
                     approvedAt |-> toISOString(l.approvalTime),
                     expiresAt |-> toISOString(l.expiryTime),
                     qrCode |-> ToDataURL(Stringify(l.qrData)),
                     qrData |-> l.qrData ])
         IN  Commit([l.db EXCEPT !.requests[l.request] = request],
                    Ok("approve", [success |-> TRUE, request |-> request]))

---------------------------------------------------------------------------
(* POST /api/qr/verify *)

Verdict(valid, message, color) == [valid |-> valid, message |-> message, color |-> color]

\* Mutant: the single-use check comes before the approval check
verifyUsedFirst(db, body, now) ==
    IF Falsy(body.qrData)
    THEN Error("verify", 400, "QR data required")
    ELSE IF ~IsJSON(body.qrData)
    THEN Error("verify", 400, "Invalid QR data format")
    ELSE LET parsedData == Parse(body.qrData)
             i == FindRequest(db, parsedData.passId)
         IN  IF i = 0
             THEN Ok("verify", Verdict(FALSE, "Pass not found", "red"))
             ELSE IF parsedData.used
             THEN Ok("verify", Verdict(FALSE, "Pass already used", "red"))
             ELSE IF db.requests[i].status # "approved"
             THEN Ok("verify", Verdict(FALSE, "Pass not approved", "red"))
             ELSE IF After(Date(now), ParseDate(parsedData.expiresAt))
             THEN Ok("verify", Assign(Verdict(FALSE, "Pass expired", "red"),
                                      [details |-> parsedData]))
             ELSE Ok("verify", Assign(Verdict(TRUE, "Valid pass", "green"),
                                      [details |-> parsedData]))

\* Mutant: the single-use check reads the flag of the stored payload
verifyStoredFlag(db, body, now) ==
    IF Falsy(body.qrData)
    THEN Error("verify", 400, "QR data required")
    ELSE IF ~IsJSON(body.qrData)
    THEN Error("verify", 400, "Invalid QR data format")
    ELSE LET parsedData == Parse(body.qrData)
             i == FindRequest(db, parsedData.passId)
         IN  IF i = 0
             THEN Ok("verify", Verdict(FALSE, "Pass not found", "red"))
             ELSE IF db.requests[i].status # "approved"
             THEN Ok("verify", Verdict(FALSE, "Pass not approved", "red"))
             ELSE IF db.requests[i].qrData.used
             THEN Ok("verify", Verdict(FALSE, "Pass already used", "red"))
             ELSE IF After(Date(now), ParseDate(parsedData.expiresAt))
             THEN Ok("verify", Assign(Verdict(FALSE, "Pass expired", "red"),
                                      [details |-> parsedData]))
             ELSE Ok("verify", Assign(Verdict(TRUE, "Valid pass", "green"),
                                      [details |-> parsedData]))

verify(db, body, now) ==
    IF Falsy(body.qrData)
    THEN Error("verify", 400, "QR data required")
    ELSE IF ~IsJSON(body.qrData)
    THEN Error("verify", 400, "Invalid QR data format")
    ELSE LET parsedData == Parse(body.qrData)
             i == FindRequest(db, parsedData.passId)
         IN  IF i = 0
             THEN Ok("verify", Verdict(FALSE, "Pass not found", "red"))
             ELSE IF db.requests[i].status # "approved"
             THEN Ok("verify", Verdict(FALSE, "Pass not approved", "red"))
             ELSE IF parsedData.used
             THEN Ok("verify", Verdict(FALSE, "Pass already used", "red"))
             ELSE IF After(Date(now), ParseDate(parsedData.expiresAt))
             THEN Ok("verify", Assign(Verdict(FALSE, "Pass expired", "red"),
                                      [details |-> parsedData]))
             ELSE Ok("verify", Assign(Verdict(TRUE, "Valid pass", "green"),
                                      [details |-> parsedData]))

---------------------------------------------------------------------------
(* POST /api/logs/entry *)

\* Mutant: the request is logged but its payload is not marked
markNothing(request) == request

\* Mutant: the flag is set on the request itself
markUsedTopLevel(request) == Assign(request, [used |-> TRUE])

\* if (request.qrData) { request.qrData.used = true; }
markUsed(request) ==
    IF "qrData" \in DOMAIN request
    THEN [request EXCEPT !.qrData.used = TRUE]
    ELSE request

recordEntry(db, body, now, rnd) ==
    IF Falsy(body.passId) \/ Falsy(body.type)
    THEN Respond(Error("entry", 400, "Pass ID and type required"))
    ELSE LET i == FindRequest(db, body.passId) IN
         IF i = 0
         THEN Respond(Error("entry", 404, "Pass not found"))
         ELSE LET request == markUsed(db.requests[i])
                  logEntry == [
                      id |-> generateID("LOG", now, rnd),
                      passId |-> body.passId,
                      studentId |-> request.studentId,
                      studentName |-> request.studentName,
                      type |-> body.type,
                      timestamp |-> toISOString(Date(now)),
                      reason |-> request.reason ]
              IN  Commit([db EXCEPT !.requests[i] = request,
                                    !.logs = Append(@, logEntry)],
                         Ok("entry", [success |-> TRUE, log |-> logEntry]))

---------------------------------------------------------------------------
(* The handlers as steps of the server.  Every handler but approve runs from its
   readDB to its response in one step of the event loop; approve runs to its
   await in one step and from the await to its response in a later one, and any
   handler may run in between.  rok and wok say whether the file system lets
   readDB and writeDB succeed. *)

Settle(out, wok) ==
    /\ disk' = IF out.write THEN writeDB(out.db, wok) ELSE disk
    /\ resp' = out.resp

Create(body, rnd, rok, wok) ==
    /\ Settle(createRequest(readDB(rok), body, clock, rnd), wok)
    /\ UNCHANGED << clock, awaiting >>

\* Mutant: reject waits until no approve is at its await
RejectWhenIdle(body, rok, wok) ==
    /\ awaiting = EmptyBag
    /\ Settle(rejectRequest(readDB(rok), body, clock), wok)
    /\ UNCHANGED << clock, awaiting >>

Reject(body, rok, wok) ==
    /\ Settle(rejectRequest(readDB(rok), body, clock), wok)
    /\ UNCHANGED << clock, awaiting >>

ApproveBegin(body, rok) ==
    LET st == approveStart(readDB(rok), body, clock) IN
    IF st.kind = "await"
    THEN /\ awaiting' = awaiting (+) SetToBag({st.locals})
         /\ UNCHANGED << disk, clock, resp >>
    ELSE /\ resp' = st.resp
         /\ UNCHANGED << disk, clock, awaiting >>

ApproveResume(l, encoded, wok) ==
    /\ BagIn(l, awaiting)
    /\ Settle(approveFinish(l, encoded), wok)
    /\ awaiting' = awaiting (-) SetToBag({l})
    /\ UNCHANGED clock

\* Mutant: a scan found valid marks the stored payload as used
VerifyMarking(body, rok) ==
    LET db == readDB(rok)
        r == verify(db, body, clock)
    IN  /\ resp' = r
        /\ disk' = IF r.status = 200 /\ r.body.valid
                   THEN [db EXCEPT !.requests[FindRequest(db, r.body.details.passId)]
                                      = markUsed(@)]
                   ELSE disk
        /\ UNCHANGED << clock, awaiting >>

Verify(body, rok) ==
    /\ resp' = verify(readDB(rok), body, clock)
    /\ UNCHANGED << disk, clock, awaiting >>

RecordEntry(body, rnd, rok, wok) ==
    /\ Settle(recordEntry(readDB(rok), body, clock, rnd), wok)
    /\ UNCHANGED << clock, awaiting >>

\* Time passes, to the time t
Tick(t) ==
    /\ t > clock
    /\ clock' = t
    /\ UNCHANGED << disk, awaiting, resp >>

---------------------------------------------------------------------------
(* Request bodies *)

UnknownId == [prefix |-> "REQ", t |-> -1, n |-> 0]

\* The ids a client may send: those of the stored requests, one of no request, none
RequestIds == {disk.requests[i].id : i \in 1..Len(disk.requests)} \cup {UnknownId, Undefined}

GoodCreate == [ studentId |-> Str("S1"), reason |-> Str("medical"),
                expectedTime |-> Str("18:00"), duration |-> Num(1, 1) ]

\* Bodies create refuses: a field missing, empty or zero, a user who is no student, no user
BadCreates ==
    { [GoodCreate EXCEPT !.studentId = x] : x \in {Str("M1"), Str("S9"), Undefined} }
    \cup { [GoodCreate EXCEPT !.reason = Undefined], [GoodCreate EXCEPT !.expectedTime = Str("")],
           [GoodCreate EXCEPT !.duration = Num(0, 1)], [GoodCreate EXCEPT !.duration = Undefined] }

CreateBodies == {GoodCreate} \cup BadCreates

ApproveBodies == [ requestId : RequestIds, remarks : {Str("ok")} ]

RejectBodies == [ requestId : RequestIds, reason : {Str("no"), Undefined} ]

EntryBodies == [ passId : RequestIds, type : {Str("entry"), Undefined} ]

\* The same, with every kind of value the handlers tell apart: a duration of a
\* whole number of milliseconds, of a fraction of one, and one that is no number;
\* remarks given or not; two reasons; the two log types, another string and the
\* empty string
WideCreateBodies ==
    { [GoodCreate EXCEPT !.duration = d] : d \in {Num(1, 1), Num(1, 10000000), Str("soon")} }
    \cup BadCreates

WideApproveBodies == [ requestId : RequestIds, remarks : {Str("ok"), Undefined} ]

WideRejectBodies == [ requestId : RequestIds, reason : {Str("no"), Str("late"), Undefined} ]

WideEntryBodies ==
    [ passId : RequestIds,
      type : {Str("entry"), Str("exit"), Str("lunch"), Str(""), Undefined} ]

\* The payloads a scanner may send: the payloads issued (as the QR code holds them,
\* used = false), and payloads with any id, either used flag and an expiry one
\* second ago, now, or in a millisecond
IssuedPayloads ==
    { [disk.requests[i].qrData EXCEPT !.used = FALSE] :
        i \in {j \in 1..Len(disk.requests) : "qrData" \in DOMAIN disk.requests[j]} }

ForgedPayloads ==
    { [ passId |-> id, studentId |-> Str("S1"), studentName |-> Str("Asha"),
        reason |-> Str("medical"), approvedAt |-> Iso(0), expiresAt |-> e, used |-> u ] :
        id \in RequestIds \ {Undefined},
        e \in {Iso(clock - 1000), Iso(clock), Iso(clock + 1)},
        u \in BOOLEAN }

Payloads == IssuedPayloads \cup ForgedPayloads

VerifyBodies ==
    [ qrData : {Stringify(p) : p \in Payloads} \cup {Str("not json"), Undefined} ]

\* The times the clock shows when an hour can pass
WideTimes == {0, HourMs, HourMs + 1}

\* The times the clock shows when only milliseconds pass
Times == 0..MaxClock

\* The database and the suspended handlers stay within the bounds
Bounded ==
    /\ Len(disk.requests) <= MaxRequests
    /\ Len(disk.logs) <= MaxLogs
    /\ BagCardinality(awaiting) <= MaxInflight

---------------------------------------------------------------------------

Init ==
    /\ disk = [users |-> Users, requests |-> <<>>, logs |-> <<>>]
    /\ clock = 0
    /\ awaiting = EmptyBag
    /\ resp = [op |-> "none", status |-> 0]

\* The mutating handlers, interleaved at approve's await, on a working file system
Next ==
    \/ \E body \in CreateBodies : Create(body, 0, TRUE, TRUE) /\ Bounded'
    \/ \E body \in RejectBodies : Reject(body, TRUE, TRUE)
    \/ \E body \in ApproveBodies : ApproveBegin(body, TRUE) /\ Bounded'
    \/ \E l \in BagToSet(awaiting), encoded \in BOOLEAN : ApproveResume(l, encoded, TRUE)
    \/ \E body \in EntryBodies : RecordEntry(body, 0, TRUE, TRUE) /\ Bounded'
    \/ \E t \in Times : Tick(t)

Spec == Init /\ [][Next]_vars

\* One request at a time in the database and one approve at a time at its await
OneRequest ==
    /\ Len(disk.requests) <= 1
    /\ Len(disk.logs) <= MaxLogs
    /\ BagCardinality(awaiting) <= 1

\* Every handler of a pass, on one request with the wide bodies, while hours pass
NextOne ==
    \/ \E body \in WideCreateBodies : Create(body, 0, TRUE, TRUE) /\ OneRequest'
    \/ \E body \in WideRejectBodies : Reject(body, TRUE, TRUE)
    \/ \E body \in WideApproveBodies : ApproveBegin(body, TRUE) /\ OneRequest'
    \/ \E l \in BagToSet(awaiting), encoded \in BOOLEAN : ApproveResume(l, encoded, TRUE)
    \/ \E body \in VerifyBodies : Verify(body, TRUE)
    \/ \E body \in EntryBodies : RecordEntry(body, 0, TRUE, TRUE) /\ OneRequest'
    \/ \E t \in WideTimes : Tick(t)

SpecOne == Init /\ [][NextOne]_vars

\* One request, and up to MaxEntries passages through the gate
OnePass ==
    /\ Len(disk.requests) <= 1
    /\ Len(disk.logs) <= MaxEntries
    /\ BagCardinality(awaiting) <= 1

\* The life of one pass: created, decided, scanned and logged at the gate
NextGate ==
    \/ \E body \in CreateBodies : Create(body, 0, TRUE, TRUE) /\ OnePass'
    \/ \E body \in RejectBodies : Reject(body, TRUE, TRUE)
    \/ \E body \in ApproveBodies : ApproveBegin(body, TRUE) /\ OnePass'
    \/ \E l \in BagToSet(awaiting), encoded \in BOOLEAN : ApproveResume(l, encoded, TRUE)
    \/ \E body \in VerifyBodies : Verify(body, TRUE)
    \/ \E body \in WideEntryBodies : RecordEntry(body, 0, TRUE, TRUE) /\ OnePass'
    \/ \E t \in Times : Tick(t)

SpecGate == Init /\ [][NextGate]_vars

---------------------------------------------------------------------------
(* Properties *)

\* The positions of the stored requests with the id `id`, first to last
Matches(id) == {i \in 1..Len(disk.requests) : disk.requests[i].id = id}

\* The stored request a handler resolves `id` to: the first with that id
Resolved(id) == CHOOSE i \in Matches(id) : \A j \in Matches(id) : i <= j

\* The request at position i is the same request before and after a step
SameRequest(i) ==
    /\ i <= Len(disk'.requests)
    /\ disk'.requests[i].id = disk.requests[i].id
    /\ disk'.requests[i].createdAt = disk.requests[i].createdAt

\* C1: the stored status of a request leaves 'pending' at most once: once it is
\* 'approved' or 'rejected' no step of any handler changes it, also when handlers
\* run while an approve is suspended at its await.
C1_StatusSettlesOnce ==
    [][\A i \in 1..Len(disk.requests) :
          (SameRequest(i) /\ disk.requests[i].status # "pending")
              => disk'.requests[i].status = disk.requests[i].status]_vars

\* C2: an approve of a request that is not pending when the handler reads the
\* database answers 400 'Request already processed', an approve of an id that
\* resolves to no request answers 404 'Request not found', and both leave the
\* database (and the suspended handlers) as they were.
C2_ApproveRefusesProcessed ==
    [][\A body \in ApproveBodies :
          (ApproveBegin(body, TRUE) /\ ~Falsy(body.requestId)) =>
              /\ Matches(body.requestId) = {} =>
                    /\ resp' = Error("approve", 404, "Request not found")
                    /\ UNCHANGED << disk, awaiting >>
              /\ (/\ Matches(body.requestId) # {}
                  /\ disk.requests[Resolved(body.requestId)].status # "pending") =>
                    /\ resp' = Error("approve", 400, "Request already processed")
                    /\ UNCHANGED << disk, awaiting >>]_vars

\* C2, witnessed: an approve has just been refused, once for a rejected request
\* and the database holds it
C2_Witness ==
    /\ resp = Error("approve", 400, "Request already processed")
    /\ \E i \in 1..Len(disk.requests) : disk.requests[i].status = "rejected"

\* C3: a reject without a reason answers 400 and changes nothing; the first reject
\* of a pending request stores status 'rejected', its reason and the time; a reject
\* of a rejected request answers 400 'Request already processed' and changes
\* nothing, so a second reject that follows the first leaves status,
\* rejectionReason and rejectedAt as the first call's response reported them.
C3_RejectTwice ==
    [][resp'.op = "reject" => \A body \in WideRejectBodies :
          Reject(body, TRUE, TRUE) =>
              /\ Falsy(body.reason) =>
                    /\ resp' = Error("reject", 400, "Request ID and reason required")
                    /\ disk' = disk
              /\ (~Falsy(body.requestId) /\ ~Falsy(body.reason)
                    /\ Matches(body.requestId) # {}) =>
                    LET i == Resolved(body.requestId) IN
                    /\ disk.requests[i].status = "pending" =>
                          /\ disk'.requests[i].status = "rejected"
                          /\ disk'.requests[i].rejectionReason = body.reason
                          /\ disk'.requests[i].rejectedAt = Iso(clock)
                          /\ resp' = Ok("reject", [success |-> TRUE,
                                                   request |-> disk'.requests[i]])
                    /\ disk.requests[i].status = "rejected" =>
                          /\ resp' = Error("reject", 400, "Request already processed")
                          /\ disk' = disk
              /\ (resp.op = "reject" /\ resp.status = 200 /\ ~Falsy(body.reason)
                    /\ body.requestId = resp.body.request.id) =>
                    LET first == resp.body.request
                        after == disk'.requests[Resolved(body.requestId)]
                    IN  /\ resp' = Error("reject", 400, "Request already processed")
                        /\ after.status = "rejected"
                        /\ after.rejectionReason = first.rejectionReason
                        /\ after.rejectedAt = first.rejectedAt]_vars

\* C3, witnessed: a reject has just been refused and the request is still rejected
\* for the first reason given
C3_Witness ==
    /\ resp = Error("reject", 400, "Request already processed")
    /\ \E i \in 1..Len(disk.requests) :
          /\ disk.requests[i].status = "rejected"
          /\ disk.requests[i].rejectionReason = Str("late")

\* The stored requests that are approved
Approved == {i \in 1..Len(disk.requests) : disk.requests[i].status = "approved"}

\* The embedded payload of request r carries r's approvedAt and expiresAt
PayloadAgrees(r) ==
    /\ r.qrData.approvedAt = r.approvedAt
    /\ r.qrData.expiresAt = r.expiresAt

\* C4 as claimed: for every approved request expiresAt is approvedAt plus exactly
\* duration * 3600000 ms, and the payload carries the same two times.
C4_ExpiryExact ==
    \A i \in Approved :
        LET r == disk.requests[i] IN
        /\ "num" \in DOMAIN r.duration
        /\ (r.expiresAt.iso - r.approvedAt.iso) * r.duration.den = r.duration.num * HourMs
        /\ PayloadAgrees(r)

\* C4 as amended: for every approved request expiresAt differs from approvedAt plus
\* duration * 3600000 ms by less than one millisecond (so it is that sum exactly
\* when the sum is a whole number of milliseconds), and the payload carries the
\* same two times.
C4_ExpiryWithinMillisecond ==
    \A i \in Approved :
        LET r == disk.requests[i]
            diff == r.expiresAt.iso - r.approvedAt.iso
        IN  /\ "num" \in DOMAIN r.duration
            /\ diff * r.duration.den - r.duration.den < r.duration.num * HourMs
            /\ r.duration.num * HourMs < diff * r.duration.den + r.duration.den
            /\ PayloadAgrees(r)

\* C4, witnessed: a request of a ten-millionth of an hour (0.36 ms) is approved
C4_Witness ==
    \E i \in Approved :
        /\ disk.requests[i].duration = Num(1, 10000000)
        /\ disk.requests[i].expiresAt = disk.requests[i].approvedAt

\* C5: a successful approve stores the payload with used = false; a recordEntry
\* for a request that has a payload stores used = true, whether used was false
\* (the first entry or exit) or already true (any further one), and changes
\* nothing else of the payload.
C5_UsedAfterApproveAndEntry ==
    [][/\ resp'.op = "approve" => \A l \in BagToSet(awaiting) :
             ApproveResume(l, TRUE, TRUE) =>
                 /\ disk'.requests[l.request].status = "approved"
                 /\ disk'.requests[l.request].qrData.used = FALSE
                 /\ resp'.body.request.qrData.used = FALSE
       /\ resp'.op = "entry" => \A body \in WideEntryBodies :
             (RecordEntry(body, 0, TRUE, TRUE) /\ resp'.status = 200) =>
                 LET i == Resolved(body.passId) IN
                 "qrData" \in DOMAIN disk.requests[i] =>
                     /\ disk'.requests[i].qrData.used = TRUE
                     /\ [disk'.requests[i].qrData EXCEPT !.used = FALSE]
                            = [disk.requests[i].qrData EXCEPT !.used = FALSE]]_vars

\* C5, witnessed: a pass has been logged twice and is marked used
C5_Witness ==
    /\ Len(disk.logs) = 2
    /\ disk.logs[1].passId = disk.logs[2].passId
    /\ resp.op = "entry" /\ resp.status = 200
    /\ \E i \in Approved :
          /\ disk.requests[i].id = disk.logs[1].passId
          /\ disk.requests[i].qrData.used = TRUE

\* The payloads of the well-formed bodies verify may get
ScannedPayloads == {Parse(body.qrData) : body \in {b \in VerifyBodies : IsJSON(b.qrData)}}

\* now > payload.expiresAt
Expired(p) == clock > p.expiresAt.iso

\* C6: verify answers with the first check that fails, in the order existence,
\* approval, single use, expiry: 'Pass not found' when no request has the id, else
\* 'Pass not approved' when the request resolved is not approved (also for a used
\* payload), else 'Pass already used' when the payload says used (also for an
\* expired one), else 'Pass expired' with the payload when now is after its
\* expiry, else 'Valid pass' with the payload.
C6_VerifyOrder ==
    [][resp'.op = "verify" => \A p \in ScannedPayloads :
          Verify([qrData |-> Stringify(p)], TRUE) =>
              resp' = Ok("verify",
                  IF Matches(p.passId) = {}
                  THEN [valid |-> FALSE, message |-> "Pass not found", color |-> "red"]
                  ELSE IF disk.requests[Resolved(p.passId)].status # "approved"
                  THEN [valid |-> FALSE, message |-> "Pass not approved", color |-> "red"]
                  ELSE IF p.used
                  THEN [valid |-> FALSE, message |-> "Pass already used", color |-> "red"]
                  ELSE IF Expired(p)
                  THEN [valid |-> FALSE, message |-> "Pass expired", color |-> "red",
                        details |-> p]
                  ELSE [valid |-> TRUE, message |-> "Valid pass", color |-> "green",
                        details |-> p])]_vars

\* C6, witnessed: a scan of an approved pass has just been answered 'Pass
\* already used'
C6_Witness ==
    /\ resp = Ok("verify", [valid |-> FALSE, message |-> "Pass already used", color |-> "red"])
    /\ Approved # {}

\* C7 as claimed: 'Pass not found' for an id of no request; for an id of a stored
\* request 'Pass already used' whenever the payload says used, 'Pass expired'
\* whenever now is after its expiry and it is not used, 'Valid pass' otherwise.
C7_VerifyIgnoringStatus ==
    [][resp'.op = "verify" => \A p \in ScannedPayloads :
          Verify([qrData |-> Stringify(p)], TRUE) =>
              resp'.body.message =
                  IF Matches(p.passId) = {} THEN "Pass not found"
                  ELSE IF p.used THEN "Pass already used"
                  ELSE IF Expired(p) THEN "Pass expired"
                  ELSE "Valid pass"]_vars

\* C7 as amended: 'Pass not found' for an id of no request; 'Pass not approved' for
\* an id of a stored request that is not approved; for an id of an approved
\* request 'Pass already used' whenever the payload says used, 'Pass expired'
\* whenever now is after its expiry and it is not used, 'Valid pass' otherwise.
C7_VerifyOfApproved ==
    [][resp'.op = "verify" => \A p \in ScannedPayloads :
          Verify([qrData |-> Stringify(p)], TRUE) =>
              LET answer == << resp'.body.color, resp'.body.message >> IN
              /\ Matches(p.passId) = {} => answer = << "red", "Pass not found" >>
              /\ Matches(p.passId) # {} =>
                    IF disk.requests[Resolved(p.passId)].status # "approved"
                    THEN answer = << "red", "Pass not approved" >>
                    ELSE /\ p.used => answer = << "red", "Pass already used" >>
                         /\ (~p.used /\ Expired(p)) => answer = << "red", "Pass expired" >>
                         /\ (~p.used /\ ~Expired(p)) => answer = << "green", "Valid pass" >>]_vars

\* C7, witnessed: a payload that expires now has just been found valid
C7_Witness ==
    /\ resp.op = "verify" /\ resp.status = 200
    /\ resp.body.message = "Valid pass"
    /\ resp.body.details.expiresAt = Iso(clock)
    /\ Approved # {}

\* C8: when the encoder fails, the approve that awaited it answers 500 'Failed to
\* generate QR code' and writes nothing: the database after the step is the
\* database before it, whatever other handlers wrote while the approve was
\* suspended.
C8_EncoderFailureCommitsNothing ==
    [][\A l \in BagToSet(awaiting) :
          ApproveResume(l, FALSE, TRUE) =>
              /\ resp' = Error("approve", 500, "Failed to generate QR code")
              /\ disk' = disk]_vars

\* C8, witnessed: the encoder has just failed, no approve is suspended any more,
\* and the request is still pending with no approvedAt, expiresAt, image or payload
C8_Witness ==
    /\ resp = Error("approve", 500, "Failed to generate QR code")
    /\ awaiting = EmptyBag
    /\ Len(disk.requests) = 1
    /\ LET r == disk.requests[1] IN
          /\ r.status = "pending"
          /\ r.qrCode = Null /\ r.expiresAt = Null
          /\ {"approvedAt", "qrData"} \cap DOMAIN r = {}

\* The users that body.studentId resolves to as students
Students(body) ==
    {i \in 1..Len(disk.users) :
        disk.users[i].id = body.studentId /\ disk.users[i].role = "student"}

\* C9: a create with a field absent answers 400 'All fields required'; one with
\* every field given whose studentId is the id of no user of role 'student'
\* answers 404 'Student not found'; every create that does not answer 200 leaves
\* the database unchanged.  A create that answers 200 appends exactly one request,
\* pending, with the name of the student resolved and null moderatorRemarks,
\* qrCode and expiresAt, and leaves the earlier requests, the users and the logs
\* as they were.
C9_CreateChecksAndAppends ==
    [][resp'.op = "create" => \A body \in CreateBodies :
          Create(body, 0, TRUE, TRUE) =>
              /\ (\E f \in DOMAIN body : body[f] = Undefined) =>
                    resp' = Error("create", 400, "All fields required")
              /\ ((\A f \in DOMAIN body : ~Falsy(body[f])) /\ Students(body) = {}) =>
                    resp' = Error("create", 404, "Student not found")
              /\ resp'.status # 200 => disk' = disk
              /\ resp'.status = 200 =>
                    LET n == Len(disk.requests)
                        new == disk'.requests[n + 1]
                    IN  /\ Len(disk'.requests) = n + 1
                        /\ SubSeq(disk'.requests, 1, n) = disk.requests
                        /\ disk'.users = disk.users
                        /\ disk'.logs = disk.logs
                        /\ new.status = "pending"
                        /\ new.studentId = body.studentId
                        /\ \E i \in Students(body) : new.studentName = disk.users[i].name
                        /\ new.moderatorRemarks = Null
                        /\ new.qrCode = Null
                        /\ new.expiresAt = Null
                        /\ resp' = Ok("create", [success |-> TRUE, request |-> new])]_vars

\* C9, witnessed: a second request has just been created behind the first
C9_Witness ==
    /\ resp.op = "create" /\ resp.status = 200
    /\ Len(disk.requests) = 2
    /\ resp.body.request = disk.requests[2]
    /\ disk.requests[2].status = "pending"

\* What a recordEntry that resolves its passId leaves behind: one more log entry,
\* with the request's passId, studentId, studentName and reason, and the request
\* resolved changed in its payload's used flag only
EntryLogged(body) ==
    LET i == Resolved(body.passId)
        r == disk.requests[i]
        n == Len(disk.logs)
        log == disk'.logs[n + 1]
    IN  /\ Len(disk'.logs) = n + 1
        /\ SubSeq(disk'.logs, 1, n) = disk.logs
        /\ resp' = Ok("entry", [success |-> TRUE, log |-> log])
        /\ log.passId = r.id
        /\ log.studentId = r.studentId
        /\ log.studentName = r.studentName
        /\ log.reason = r.reason
        /\ log.type = body.type
        /\ log.timestamp = Iso(clock)
        /\ disk'.users = disk.users
        /\ disk'.requests = [disk.requests EXCEPT ![i] =
                IF "qrData" \in DOMAIN r THEN [r EXCEPT !.qrData.used = TRUE] ELSE r]

\* C10 as claimed: a recordEntry whose passId resolves to no request answers 404
\* and changes nothing; one whose passId resolves succeeds for any status of the
\* request and any type string, appends exactly one log entry with the
\* request's passId, studentId, studentName and reason, and changes nothing of
\* any request but the used flag of the payload of the request resolved.
C10_EntryOfAnyTypeString ==
    [][resp'.op = "entry" => \A body \in WideEntryBodies :
          (RecordEntry(body, 0, TRUE, TRUE) /\ "str" \in DOMAIN body.type
                /\ ~Falsy(body.passId)) =>
              IF Matches(body.passId) = {}
              THEN resp' = Error("entry", 404, "Pass not found") /\ disk' = disk
              ELSE EntryLogged(body)]_vars

\* C10 as amended: the same for any type string but the empty one; a recordEntry
\* with the empty string as type answers 400 'Pass ID and type required' and
\* changes nothing.
C10_EntryOfNonEmptyType ==
    [][resp'.op = "entry" => \A body \in WideEntryBodies :
          (RecordEntry(body, 0, TRUE, TRUE) /\ "str" \in DOMAIN body.type
                /\ ~Falsy(body.passId)) =>
              IF body.type = Str("")
              THEN resp' = Error("entry", 400, "Pass ID and type required") /\ disk' = disk
              ELSE IF Matches(body.passId) = {}
              THEN resp' = Error("entry", 404, "Pass not found") /\ disk' = disk
              ELSE EntryLogged(body)]_vars

\* C10, witnessed: a passage of type 'lunch' has just been logged for a rejected
\* request, which has no payload
C10_Witness ==
    /\ resp.op = "entry" /\ resp.status = 200
    /\ resp.body.log.type = Str("lunch")
    /\ \E i \in 1..Len(disk.requests) :
          /\ disk.requests[i].id = resp.body.log.passId
          /\ disk.requests[i].status = "rejected"
          /\ "qrData" \notin DOMAIN disk.requests[i]

\* C11: the logs are append-only: every log entry of the database is, after any
\* step of any handler, still in the database at its place with the same fields,
\* also when a recordEntry completes while an approve is suspended at its await.
C11_LogsAppendOnly ==
    [][\A i \in 1..Len(disk.logs) :
          /\ i <= Len(disk'.logs)
          /\ disk'.logs[i] = disk.logs[i]]_vars

---------------------------------------------------------------------------
(* The routes that only read: login, the lists, the statistics, the users and
   the export *)

DayMs == 86400000   \* 24 * 60 * 60 * 1000

\* today.setHours(0, 0, 0, 0) on new Date(): the start of the day of `now`
\* (for a server whose local time is UTC)
StartOfDay(now) == Date(now - (now % DayMs))

\* a >= b on Dates; every comparison with NaN is false
NotBefore(a, b) == IsValidDate(a) /\ IsValidDate(b) /\ a.ms >= b.ms

\* db.users.find(u => u.username === username && u.password === password)
FindLogin(db, username, password) ==
    LET hits == {i \in 1..Len(db.users) :
                    db.users[i].username = username /\ db.users[i].password = password}
    IN  IF hits = {} THEN 0 ELSE CHOOSE i \in hits : \A j \in hits : i <= j

\* POST /api/login
login(db, body) ==
    IF Falsy(body.username) \/ Falsy(body.password)
    THEN Error("login", 400, "Username and password required")
    ELSE LET u == FindLogin(db, body.username, body.password) IN
         IF u # 0
         THEN Ok("login", [success |-> TRUE,
                           user |-> [id |-> db.users[u].id, name |-> db.users[u].name,
                                     role |-> db.users[u].role, email |-> db.users[u].email]])
         ELSE Error("login", 401, "Invalid credentials")

\* GET /api/requests/student/:studentId
studentRequests(db, studentId) ==
    LET Mine(r) == r.studentId = studentId
    IN  Ok("student", [requests |-> SelectSeq(db.requests, Mine)])

\* GET /api/requests/pending
pendingRequests(db) ==
    LET Pending(r) == r.status = "pending"
    IN  Ok("pending", [requests |-> SelectSeq(db.requests, Pending)])

\* GET /api/requests/all
allRequests(db) == Ok("all", [requests |-> db.requests])

\* GET /api/logs/all
allLogs(db) == Ok("logs", [logs |-> db.logs])

\* GET /api/admin/stats
stats(db, now) ==
    LET today == StartOfDay(now)
        Pending(r) == r.status = "pending"
        ApprovedToday(r) ==
            /\ r.status = "approved"
            /\ "approvedAt" \in DOMAIN r
            /\ ~Falsy(r.approvedAt)
            /\ NotBefore(ParseDate(r.approvedAt), today)
        RejectedToday(r) ==
            /\ r.status = "rejected"
            /\ "rejectedAt" \in DOMAIN r
            /\ ~Falsy(r.rejectedAt)
            /\ NotBefore(ParseDate(r.rejectedAt), today)
        EntryToday(l) ==
            NotBefore(ParseDate(l.timestamp), today) /\ l.type = Str("entry")
    IN  Ok("stats", [ totalRequests |-> Len(db.requests),
                      pendingRequests |-> Len(SelectSeq(db.requests, Pending)),
                      approvedToday |-> Len(SelectSeq(db.requests, ApprovedToday)),
                      rejectedToday |-> Len(SelectSeq(db.requests, RejectedToday)),
                      totalLogs |-> Len(db.logs),
                      entryLogsToday |-> Len(SelectSeq(db.logs, EntryToday)) ])

\* GET /api/admin/users: every user without the password
users(db) ==
    Ok("users", [users |-> [i \in 1..Len(db.users) |->
                               [id |-> db.users[i].id, name |-> db.users[i].name,
                                username |-> db.users[i].username,
                                role |-> db.users[i].role, email |-> db.users[i].email]]])

\* GET /api/admin/export?type=...
export(db, type) ==
    IF type = Str("logs")
    THEN Ok("export", [data |-> db.logs])
    ELSE Ok("export", [data |-> db.requests])

\* The read-only handlers as steps of the server: a response, and nothing written
Answer(r) ==
    /\ resp' = r
    /\ UNCHANGED << disk, clock, awaiting >>

Login(body, rok) == Answer(login(readDB(rok), body))

StudentRequests(studentId, rok) == Answer(studentRequests(readDB(rok), studentId))

PendingRequests(rok) == Answer(pendingRequests(readDB(rok)))

AllRequests(rok) == Answer(allRequests(readDB(rok)))

AllLogs(rok) == Answer(allLogs(readDB(rok)))

Stats(rok) == Answer(stats(readDB(rok), clock))

UsersList(rok) == Answer(users(readDB(rok)))

Export(type, rok) == Answer(export(readDB(rok), type))

\* Credentials: those of a user, a wrong password, none
LoginBodies ==
    [ username : {Str("asha")}, password : {Str("pw1"), Str("pw9"), Undefined} ]

StudentIds == {Str("S1"), Str("S9")}

ExportTypes == {Str("logs"), Str("requests"), Undefined}

\* Every route of the server on one request, on a file system where a read or a
\* write of the database file may fail
NextIO ==
    \/ \E body \in CreateBodies, rok, wok \in BOOLEAN :
          Create(body, 0, rok, wok) /\ OneRequest'
    \/ \E body \in RejectBodies, rok, wok \in BOOLEAN : Reject(body, rok, wok)
    \/ \E body \in ApproveBodies, rok \in BOOLEAN : ApproveBegin(body, rok) /\ OneRequest'
    \/ \E l \in BagToSet(awaiting), encoded, wok \in BOOLEAN : ApproveResume(l, encoded, wok)
    \/ \E body \in VerifyBodies, rok \in BOOLEAN : Verify(body, rok)
    \/ \E body \in EntryBodies, rok, wok \in BOOLEAN :
          RecordEntry(body, 0, rok, wok) /\ OneRequest'
    \/ \E body \in LoginBodies, rok \in BOOLEAN : Login(body, rok)
    \/ \E studentId \in StudentIds, rok \in BOOLEAN : StudentRequests(studentId, rok)
    \/ \E rok \in BOOLEAN : PendingRequests(rok)
    \/ \E rok \in BOOLEAN : AllRequests(rok)
    \/ \E rok \in BOOLEAN : AllLogs(rok)
    \/ \E rok \in BOOLEAN : Stats(rok)
    \/ \E rok \in BOOLEAN : UsersList(rok)
    \/ \E type \in ExportTypes, rok \in BOOLEAN : Export(type, rok)
    \/ \E t \in Times : Tick(t)

SpecIO == Init /\ [][NextIO]_vars

---------------------------------------------------------------------------
(* Properties of the server on a failing file system *)

\* C12: when writeDB fails in create, approve, reject or recordEntry, the handler
\* does not answer with success: its response is a failure.
C12_WriteFailureReported ==
    [][/\ \A body \in CreateBodies :
             Create(body, 0, TRUE, FALSE) => resp'.status # 200
       /\ \A l \in BagToSet(awaiting) :
             ApproveResume(l, TRUE, FALSE) => resp'.status # 200
       /\ \A body \in RejectBodies :
             Reject(body, TRUE, FALSE) => resp'.status # 200
       /\ \A body \in EntryBodies :
             RecordEntry(body, 0, TRUE, FALSE) => resp'.status # 200]_vars

---------------------------------------------------------------------------
(* Properties of the interleavings at approve's await *)

\* The suspended approve l has passed the pending check for a request that the
\* database now holds approved by another approve
Overtaken(l) ==
    /\ Matches(l.qrData.passId) # {}
    /\ disk.requests[Resolved(l.qrData.passId)].status = "approved"
    /\ disk.requests[Resolved(l.qrData.passId)].qrData # l.qrData

\* C13: two approves of one pending request can both pass the pending check, and
\* then both succeed and the one that writes last decides what is stored: when a
\* suspended approve resumes with its image encoded it answers 200 and the
\* database holds its approvedAt, its expiresAt and its payload, also when the
\* request has meanwhile been approved by the other call.
C13_LastApproveWins ==
    [][resp'.op = "approve" => \A l \in BagToSet(awaiting) :
          (ApproveResume(l, TRUE, TRUE) /\ Overtaken(l)) =>
              LET i == Resolved(l.qrData.passId) IN
              /\ resp'.status = 200
              /\ resp'.body.request = disk'.requests[i]
              /\ disk'.requests[i].status = "approved"
              /\ disk'.requests[i].approvedAt = toISOString(l.approvalTime)
              /\ disk'.requests[i].expiresAt = toISOString(l.expiryTime)
              /\ disk'.requests[i].qrData = l.qrData]_vars

\* C13, witnessed: the first of two approves of a request has just answered 200
\* and the database holds its times, while the second, which read the request as
\* pending a millisecond later, is still at its await
C13_Witness ==
    /\ resp.op = "approve" /\ resp.status = 200
    /\ \E l \in BagToSet(awaiting) :
          /\ Overtaken(l)
          /\ resp.body.request.id = l.qrData.passId
          /\ l.db.requests[l.request].status = "pending"
          /\ disk.requests[Resolved(l.qrData.passId)].approvedAt = Iso(0)
          /\ l.qrData.approvedAt = Iso(1)

\* C14: in every state of the database, under every interleaving, a request has a
\* payload and an approvedAt exactly when its status is 'approved', it has a
\* rejectionReason and a rejectedAt exactly when its status is 'rejected', and no
\* request has both a payload and a rejectionReason.
C14_FieldsFollowStatus ==
    \A i \in 1..Len(disk.requests) :
        LET r == disk.requests[i] IN
        /\ "qrData" \in DOMAIN r <=> r.status = "approved"
        /\ "approvedAt" \in DOMAIN r <=> r.status = "approved"
        /\ "rejectionReason" \in DOMAIN r <=> r.status = "rejected"
        /\ "rejectedAt" \in DOMAIN r <=> r.status = "rejected"
        /\ ~({"qrData", "rejectionReason"} \subseteq DOMAIN r)

\* C14, witnessed: the database holds an approved request with its payload next
\* to a rejected one with its reason, and an approve is still at its await
C14_Witness ==
    /\ awaiting # EmptyBag
    /\ \E i, j \in 1..Len(disk.requests) :
          /\ disk.requests[i].status = "approved"
          /\ disk.requests[i].qrData.passId = disk.requests[i].id
          /\ disk.requests[j].status = "rejected"
          /\ disk.requests[j].rejectionReason = Str("no")

\* C15: the used flag of a stored payload is monotone: once it is true in the
\* database no step of any handler leaves the request with a payload whose flag
\* is false or with no payload, also when handlers run while an approve is
\* suspended at its await.
C15_UsedMonotone ==
    [][\A i \in 1..Len(disk.requests) :
          (/\ SameRequest(i)
           /\ "qrData" \in DOMAIN disk.requests[i]
           /\ disk.requests[i].qrData.used) =>
              /\ "qrData" \in DOMAIN disk'.requests[i]
              /\ disk'.requests[i].qrData.used]_vars

---------------------------------------------------------------------------
(* What verify reads of the database *)

\* The databases that differ from the stored one only in the used flag and the
\* expiry stored with the payloads: every request is there with its status
StoredVariants ==
    { [disk EXCEPT !.requests =
          [i \in 1..Len(disk.requests) |->
              IF "qrData" \in DOMAIN disk.requests[i]
              THEN [disk.requests[i] EXCEPT !.qrData.used = u,
                                            !.qrData.expiresAt = e,
                                            !.expiresAt = e]
              ELSE disk.requests[i]]] :
        u \in BOOLEAN, e \in {Iso(clock - 1000), Iso(clock), Iso(clock + HourMs)} }

\* The payload as the QR code of the approved request i holds it
Issued(i) == [disk.requests[i].qrData EXCEPT !.used = FALSE]

\* C16: the answer of verify to a scan does not change when the used flag or the
\* expiry stored with the request change: it is the same on every database that
\* has the same requests with the same statuses.  So the payload as issued
\* (used = false), scanned before its expiry, is answered 'Valid pass' also when
\* recordEntry has set the stored flag to true.
C16_VerifyTrustsScan ==
    /\ \A body \in VerifyBodies, db \in StoredVariants :
          verify(db, body, clock) = verify(disk, body, clock)
    /\ \A i \in Approved :
          (/\ disk.requests[i].qrData.used
           /\ Resolved(disk.requests[i].id) = i
           /\ ~Expired(Issued(i))) =>
              verify(disk, [qrData |-> Stringify(Issued(i))], clock)
                  = Ok("verify", [valid |-> TRUE, message |-> "Valid pass",
                                  color |-> "green", details |-> Issued(i)])

\* C16, witnessed: the pass has been logged at the gate, its stored flag is true,
\* and the scan of the payload as issued has just been answered 'Valid pass'
C16_Witness ==
    /\ resp.op = "verify" /\ resp.status = 200
    /\ resp.body.valid
    /\ \E i \in Approved :
          /\ disk.requests[i].qrData.used
          /\ resp.body.details = Issued(i)
          /\ \E k \in 1..Len(disk.logs) : disk.logs[k].passId = disk.requests[i].id

---------------------------------------------------------------------------
(* Progress of the handlers *)

\* C17: a suspended approve holds no lock: in every state, whatever approves are
\* at their await, a create, a reject, a recordEntry, a verify and another approve
\* of every body can run, each of them to its response (the approve to its await
\* or response), and every suspended approve can resume; so some handler can
\* always take a step and no state is a deadlock.
C17_NoHandlerWaits ==
    /\ \A body \in CreateBodies : ENABLED Create(body, 0, TRUE, TRUE)
    /\ \A body \in RejectBodies : ENABLED Reject(body, TRUE, TRUE)
    /\ \A body \in EntryBodies : ENABLED RecordEntry(body, 0, TRUE, TRUE)
    /\ \A body \in VerifyBodies : ENABLED Verify(body, TRUE)
    /\ \A body \in ApproveBodies : ENABLED ApproveBegin(body, TRUE)
    /\ \A l \in BagToSet(awaiting), encoded \in BOOLEAN :
          ENABLED ApproveResume(l, encoded, TRUE)
    /\ ENABLED NextGate

\* C17, witnessed: while an approve is at its await, a reject of the same request
\* has run to its successful response
C17_Witness ==
    /\ resp.op = "reject" /\ resp.status = 200
    /\ \E l \in BagToSet(awaiting) : l.qrData.passId = resp.body.request.id

\* C18: a request that has been created is never lost: every request of the
\* database is, after any step of any handler, still in the database at its
\* place, also when the create completed while an approve of another request was
\* suspended at its await.
C18_CreatedNeverLost ==
    [][\A i \in 1..Len(disk.requests) :
          /\ i <= Len(disk'.requests)
          /\ disk'.requests[i].id = disk.requests[i].id]_vars

---------------------------------------------------------------------------
(* The frame of the read-only routes *)

\* C19: verify, the three lists of requests, login, the statistics, the users and
\* the export write nothing: whatever they are sent and whatever they answer,
\* whether the read of the file succeeds or not, the users, the requests and the
\* logs of the database are after the step what they were before it.
C19_ReadersWriteNothing ==
    [][(\/ \E body \in VerifyBodies, rok \in BOOLEAN : Verify(body, rok)
        \/ \E studentId \in StudentIds, rok \in BOOLEAN : StudentRequests(studentId, rok)
        \/ \E rok \in BOOLEAN : PendingRequests(rok) \/ AllRequests(rok)
        \/ \E body \in LoginBodies, rok \in BOOLEAN : Login(body, rok)
        \/ \E rok \in BOOLEAN : Stats(rok) \/ UsersList(rok)
        \/ \E type \in ExportTypes, rok \in BOOLEAN : Export(type, rok))
          => /\ disk'.users = disk.users
             /\ disk'.requests = disk.requests
             /\ disk'.logs = disk.logs]_vars

\* C19, witnessed: a scan has just been found valid and the stored payload is
\* still not used
C19_Witness ==
    /\ resp.op = "verify" /\ resp.status = 200
    /\ resp.body.valid
    /\ \E i \in Approved :
          /\ disk.requests[i].id = resp.body.details.passId
          /\ ~disk.requests[i].qrData.used

\* C20: a failed read loses no data: when readDB fails and gives the empty
\* database, a create, an approve, a reject and a recordEntry that get as far as
\* the read answer 404 (student, request or pass not found) and return before
\* writeDB, whether a write would succeed or not, so the database file stays as
\* it was and no approve is left at its await on the empty snapshot.
C20_FailedReadWritesNothing ==
    [][/\ \A body \in CreateBodies, wok \in BOOLEAN :
             (Create(body, 0, FALSE, wok) /\ \A f \in DOMAIN body : ~Falsy(body[f])) =>
                 /\ resp' = Error("create", 404, "Student not found")
                 /\ disk' = disk
       /\ \A body \in ApproveBodies :
             (ApproveBegin(body, FALSE) /\ ~Falsy(body.requestId)) =>
                 /\ resp' = Error("approve", 404, "Request not found")
                 /\ UNCHANGED << disk, awaiting >>
       /\ \A body \in RejectBodies, wok \in BOOLEAN :
             (Reject(body, FALSE, wok) /\ ~Falsy(body.requestId) /\ ~Falsy(body.reason)) =>
                 /\ resp' = Error("reject", 404, "Request not found")
                 /\ disk' = disk
       /\ \A body \in EntryBodies, wok \in BOOLEAN :
             (RecordEntry(body, 0, FALSE, wok) /\ ~Falsy(body.passId) /\ ~Falsy(body.type)) =>
                 /\ resp' = Error("entry", 404, "Pass not found")
                 /\ disk' = disk]_vars

\* C20, witnessed: a create has just been answered 'Student not found' and the
\* database still holds its users, a request and a log entry
C20_Witness ==
    /\ resp = Error("create", 404, "Student not found")
    /\ disk.users = Users
    /\ Len(disk.requests) = 1
    /\ Len(disk.logs) = 1

====
